---- MODULE Spec2Model ----
(***************************************************************************)
(* State-machine model of src/sacred_geometry_optimizer.py: the metrics    *)
(* report loader, the category analyzer, the five task generators, the     *)
(* priority classifier, the roadmap builder and the exporter, run in the   *)
(* order main() and generate_optimization_plan() call them.                *)
(*                                                                         *)
(* Numbers.  Scores and impacts are hundredths (0.65 is 65).  Priority     *)
(* weights are thousandths (PHI = 1.618... is 1618); the code only ever    *)
(* compares a weight with the three module constants, so the scaling       *)
(* keeps every comparison.                                                 *)
(***************************************************************************)
EXTENDS Integers, Sequences, FiniteSets, TLC

\* ------------------------------------------------------------------------
\* Module constants (src/sacred_geometry_optimizer.py:16-18)
PHI == 1618
PHI_SQUARED == 2618
PHI_CUBED == 4236

\* ------------------------------------------------------------------------
\* Bounds of the model
\* Weights handed to the classifier range over -1 .. MaxWeight (thousandths).
MaxWeight == 4300

\* A score mapping lacks at most MaxMissing of the five score keys (or all).
MaxMissing == 1

\* A caller runs the plan on at most MaxRuns fresh optimizers in a row.
MaxRuns == 2

\* save_optimization_plan is called at most MaxSaves times.
MaxSaves == 3

\* The clock: TicksPerSecond ticks make a second, and it runs to MaxClock ticks.
TicksPerSecond == 2

MaxClock == 3

\* Scores a report may carry for a category: below 0.5, 0.5, between 0.5 and
\* 0.7, 0.7, between 0.7 and 0.8, 0.8, above 0.8.
ScoreValues == {40, 50, 60, 65, 70, 75, 80, 90}

\* ------------------------------------------------------------------------
\* Dictionaries are functions on a set of string keys.
EmptyDict == [k \in {} |-> 0]

\* dict.get(key, default)
DictGet(d, key, default) == IF key \in DOMAIN d THEN d[key] ELSE default

\* The keys _analyze_current_state reads, in the order it reads them, and the
\* pattern each one feeds.
ScoreKeys ==
    << "circle_completeness", "triangle_stability", "spiral_growth",
       "golden_ratio_optimization", "fractal_consistency" >>

Patterns == << "Circle", "Triangle", "Spiral", "Golden Ratio", "Fractal" >>

KeySet == { ScoreKeys[i] : i \in DOMAIN ScoreKeys }

PatternSet == { Patterns[i] : i \in DOMAIN Patterns }

\* The score mappings a report may hold: a score for every key but at most
\* MaxMissing of them, or no score at all.
ScoreMaps ==
    UNION { [K -> ScoreValues] :
              K \in { S \in SUBSET KeySet :
                        S = {} \/ Cardinality(KeySet \ S) <= MaxMissing } }

\* The parsed documents _load_analysis may return: no overall_analysis field,
\* an overall_analysis without average_scores, or one with a score mapping.
Reports ==
    { EmptyDict, [k \in {"overall_analysis"} |-> EmptyDict] }
        \cup { [k \in {"overall_analysis"} |-> [j \in {"average_scores"} |-> s]]
                 : s \in ScoreMaps }

VARIABLES
    disk_state,          \* "none": no analysis file; "invalid": not JSON; "valid"
    disk_report,         \* the document in the latest analysis file
    pc,                  \* where main() / generate_optimization_plan() stands
    analysis_data,       \* self.analysis_data
    optimization_tasks,  \* self.optimization_tasks
    pattern_scores,      \* self.pattern_scores
    weakest_pattern,     \* self.weakest_pattern
    strongest_pattern,   \* self.strongest_pattern
    roadmap,             \* the roadmap generate_optimization_plan returned
    files_written,       \* plan files save_optimization_plan has written
    priority_arg,        \* the argument of the latest _get_priority_name call
    priority_name,       \* what that call returned
    runs,                \* the run of the plan under way: 1, then one more per further run
    prior_roadmap,       \* the roadmap the previous run returned
    clock,               \* time.time(), in ticks
    storage,             \* "ok", "open_fails" (open raises), "write_fails" (json.dump raises)
    plan_files,          \* the plan files on disk: timestamp in the name -> content
    save_calls,          \* calls of save_optimization_plan so far
    open_handles,        \* file objects opened by the optimizer and not closed
    \* src/sacred_geometry_automation_enhancer.py
    enh_pc,              \* where the enhancer's main() stands
    self_pattern,        \* self.pattern
    validation_results,  \* what validate_conda_environment returned
    performance_results, \* what analyze_automation_performance returned
    discovery_results,   \* what discover_existing_automations returned
    recommendations,     \* what generate_enhancement_recommendations returned
    report_files,        \* enhancement reports written
    exit_status,         \* what main() returned; -1 while it runs
    \* src/python_performance_fix_safe.py
    run_pc,              \* where the runner's main() stands
    future_to_category,  \* the categories submitted, in submission order
    future_state,        \* category -> state of its future and worker
    future_value,        \* category -> what run_test_category returned
    results,             \* results: category -> entry
    final_results        \* final_results, {} until computed

vars ==
    << disk_state, disk_report, pc, analysis_data, optimization_tasks,
       pattern_scores, weakest_pattern, strongest_pattern, roadmap,
       files_written, priority_arg, priority_name, runs, prior_roadmap, clock,
       storage, plan_files, save_calls, open_handles,
       enh_pc, self_pattern, validation_results, performance_results,
       discovery_results, recommendations, report_files, exit_status,
       run_pc, future_to_category, future_state, future_value, results,
       final_results >>

\* The state of each of the other two programs.
enhancer ==
    << enh_pc, self_pattern, validation_results, performance_results,
       discovery_results, recommendations, report_files, exit_status >>

runner ==
    << run_pc, future_to_category, future_state, future_value, results,
       final_results >>

other_programs == << enhancer, runner >>

\* What only a further run touches, and what only the export touches.
rerun == << runs, prior_roadmap >>

export == << clock, storage, plan_files, save_calls >>

optimizer ==
    << analysis_data, optimization_tasks, pattern_scores, weakest_pattern,
       strongest_pattern >>

\* ------------------------------------------------------------------------
\* OptimizationTask (dataclass).  description, implementation_steps and
\* success_criteria are fixed texts per id and are left out.
OptimizationTask(id, title, priority, pattern, system, effort, impact) ==
    [ id |-> id, title |-> title, priority |-> priority, pattern |-> pattern,
      system |-> system, estimated_effort |-> effort, expected_impact |-> impact ]

\* ------------------------------------------------------------------------
\* Category analyzer

\* min(keys, key=...) scans the keys in dict order and keeps the first key
\* seen unless a later one is strictly smaller; best is the index kept so far.
\* Mutant of MinScan: a later key replaces the kept one on <= (last tie wins).
RECURSIVE MinScanLast(_, _, _)
MinScanLast(scores, best, i) ==
    IF i > Len(Patterns) THEN best
    ELSE IF scores[Patterns[i]] <= scores[Patterns[best]]
           THEN MinScanLast(scores, i, i + 1)
           ELSE MinScanLast(scores, best, i + 1)

RECURSIVE MinScan(_, _, _)
MinScan(scores, best, i) ==
    IF i > Len(Patterns) THEN best
    ELSE IF scores[Patterns[i]] < scores[Patterns[best]]
           THEN MinScan(scores, i, i + 1)
           ELSE MinScan(scores, best, i + 1)

MinPattern(scores) == Patterns[MinScan(scores, 1, 2)]

\* max(keys, key=...): the same scan, replacing on strictly greater.
RECURSIVE MaxScan(_, _, _)
MaxScan(scores, best, i) ==
    IF i > Len(Patterns) THEN best
    ELSE IF scores[Patterns[i]] > scores[Patterns[best]]
           THEN MaxScan(scores, i, i + 1)
           ELSE MaxScan(scores, best, i + 1)

MaxPattern(scores) == Patterns[MaxScan(scores, 1, 2)]

\* The pattern_scores dict built from the report, every missing level
\* replaced by its .get default ({} for the mappings, 0 for a score).
PatternScores(data) ==
    LET overall    == DictGet(data, "overall_analysis", EmptyDict)
        avg_scores == DictGet(overall, "average_scores", EmptyDict)
    IN  [ p \in PatternSet |->
            LET i == CHOOSE n \in DOMAIN Patterns : Patterns[n] = p
            IN  DictGet(avg_scores, ScoreKeys[i], 0) ]

\* ------------------------------------------------------------------------
\* Task generators: the tasks each generator appends, in append order.
\* Mutant of CircleTasks: both thresholds inclusive (<= for <).
CircleTasksInclusive(scores) ==
    LET circle_score == scores["Circle"]
    IN  (IF circle_score <= 70
           THEN << OptimizationTask("CIRCLE_001",
                     "Enhance System Completeness Through Sacred Geometry Testing",
                     PHI_CUBED, "Circle", "All Systems", "Large", 85) >>
           ELSE << >>)
        \o
        (IF circle_score <= 80
           THEN << OptimizationTask("CIRCLE_002",
                     "Sacred Geometry Documentation System",
                     PHI_SQUARED, "Circle", "All Systems", "Medium", 70) >>
           ELSE << >>)

CircleTasks(scores) ==
    LET circle_score == scores["Circle"]
    IN  (IF circle_score < 70
           THEN << OptimizationTask("CIRCLE_001",
                     "Enhance System Completeness Through Sacred Geometry Testing",
                     PHI_CUBED, "Circle", "All Systems", "Large", 85) >>
           ELSE << >>)
        \o
        (IF circle_score < 80
           THEN << OptimizationTask("CIRCLE_002",
                     "Sacred Geometry Documentation System",
                     PHI_SQUARED, "Circle", "All Systems", "Medium", 70) >>
           ELSE << >>)

\* Mutant of TriangleTasks: the weight ignores the weakest pattern.
TriangleTasksFlat(scores, weakest) ==
    LET triangle_score == scores["Triangle"]
    IN  IF triangle_score < 70
          THEN << OptimizationTask("TRIANGLE_001",
                    "Three-Point Architecture Stabilization",
                    PHI_SQUARED, "Triangle", "All Systems", "Large", 90) >>
          ELSE << >>

TriangleTasks(scores, weakest) ==
    LET triangle_score == scores["Triangle"]
    IN  IF triangle_score < 70
          THEN << OptimizationTask("TRIANGLE_001",
                    "Three-Point Architecture Stabilization",
                    IF weakest = "Triangle" THEN PHI_CUBED ELSE PHI_SQUARED,
                    "Triangle", "All Systems", "Large", 90) >>
          ELSE << >>

\* Mutant of SpiralTasks: the task carries the id of the Triangle task.
SpiralTasksCopiedId(scores) ==
    LET spiral_score == scores["Spiral"]
    IN  IF spiral_score < 70
          THEN << OptimizationTask("TRIANGLE_001",
                    "Progressive Enhancement Spiral Implementation",
                    PHI_SQUARED, "Spiral", "All Systems", "Medium", 75) >>
          ELSE << >>

SpiralTasks(scores) ==
    LET spiral_score == scores["Spiral"]
    IN  IF spiral_score < 70
          THEN << OptimizationTask("SPIRAL_001",
                    "Progressive Enhancement Spiral Implementation",
                    PHI_SQUARED, "Spiral", "All Systems", "Medium", 75) >>
          ELSE << >>

\* Mutant of GoldenRatioTasks: the second task gated at 0.8, as Circle's is.
GoldenRatioTasksGated(scores) ==
    LET golden_ratio_score == scores["Golden Ratio"]
    IN  (IF golden_ratio_score < 50
           THEN << OptimizationTask("GOLDEN_RATIO_001",
                     "phi = PHI System Proportion Optimization",
                     PHI_CUBED, "Golden Ratio", "All Systems", "Large", 95) >>
           ELSE << >>)
        \o
        (IF golden_ratio_score < 80
           THEN << OptimizationTask("GOLDEN_RATIO_002",
                     "Sacred Geometry Performance Optimization",
                     PHI, "Golden Ratio", "Core Systems", "Medium", 80) >>
           ELSE << >>)

\* Mutant of GoldenRatioTasks: the unconditional task is left out.
GoldenRatioTasksPrimaryOnly(scores) ==
    LET golden_ratio_score == scores["Golden Ratio"]
    IN  IF golden_ratio_score < 50
          THEN << OptimizationTask("GOLDEN_RATIO_001",
                    "phi = PHI System Proportion Optimization",
                    PHI_CUBED, "Golden Ratio", "All Systems", "Large", 95) >>
          ELSE << >>

GoldenRatioTasks(scores) ==
    LET golden_ratio_score == scores["Golden Ratio"]
    IN  (IF golden_ratio_score < 50
           THEN << OptimizationTask("GOLDEN_RATIO_001",
                     "phi = PHI System Proportion Optimization",
                     PHI_CUBED, "Golden Ratio", "All Systems", "Large", 95) >>
           ELSE << >>)
        \o
        << OptimizationTask("GOLDEN_RATIO_002",
             "Sacred Geometry Performance Optimization",
             PHI, "Golden Ratio", "Core Systems", "Medium", 80) >>

\* Mutant of FractalTasks: the threshold is 0.8.
FractalTasksAt80(scores) ==
    LET fractal_score == scores["Fractal"]
    IN  IF fractal_score < 80
          THEN << OptimizationTask("FRACTAL_001",
                    "Self-Similar Pattern Consistency Implementation",
                    PHI, "Fractal", "All Systems", "Medium", 70) >>
          ELSE << >>

\* Mutant of FractalTasks: the task is given the weight 1.0, below PHI.
FractalTasksUnitWeight(scores) ==
    LET fractal_score == scores["Fractal"]
    IN  IF fractal_score < 70
          THEN << OptimizationTask("FRACTAL_001",
                    "Self-Similar Pattern Consistency Implementation",
                    1000, "Fractal", "All Systems", "Medium", 70) >>
          ELSE << >>

FractalTasks(scores) ==
    LET fractal_score == scores["Fractal"]
    IN  IF fractal_score < 70
          THEN << OptimizationTask("FRACTAL_001",
                    "Self-Similar Pattern Consistency Implementation",
                    PHI, "Fractal", "All Systems", "Medium", 70) >>
          ELSE << >>

\* ------------------------------------------------------------------------
\* Priority classifier
\* Mutant of _get_priority_name: strict comparisons (> for >=).
_get_priority_name_strict(priority) ==
    IF priority > PHI_CUBED THEN "phi^3 CRITICAL"
    ELSE IF priority > PHI_SQUARED THEN "phi^2 HIGH"
    ELSE IF priority > PHI THEN "phi^1 MEDIUM"
    ELSE "phi^0 LOW"

_get_priority_name(priority) ==
    IF priority >= PHI_CUBED THEN "phi^3 CRITICAL"
    ELSE IF priority >= PHI_SQUARED THEN "phi^2 HIGH"
    ELSE IF priority >= PHI THEN "phi^1 MEDIUM"
    ELSE "phi^0 LOW"

\* ------------------------------------------------------------------------
\* list.sort(key=lambda t: t.priority, reverse=True): a stable sort, so a
\* task goes behind every task already placed whose priority is >= its own.
\* Mutant of InsertByPriority: a task goes in front of the tasks of its own
\* priority (an unstable sort).
RECURSIVE InsertByPriorityUnstable(_, _)
InsertByPriorityUnstable(sorted, t) ==
    IF sorted = << >> THEN << t >>
    ELSE IF Head(sorted).priority > t.priority
           THEN << Head(sorted) >> \o InsertByPriorityUnstable(Tail(sorted), t)
           ELSE << t >> \o sorted

RECURSIVE InsertByPriority(_, _)
InsertByPriority(sorted, t) ==
    IF sorted = << >> THEN << t >>
    ELSE IF Head(sorted).priority >= t.priority
           THEN << Head(sorted) >> \o InsertByPriority(Tail(sorted), t)
           ELSE << t >> \o sorted

RECURSIVE SortByPriority(_)
SortByPriority(tasks) ==
    IF tasks = << >> THEN << >>
    ELSE InsertByPriority(SortByPriority(SubSeq(tasks, 1, Len(tasks) - 1)),
                          tasks[Len(tasks)])

\* ------------------------------------------------------------------------
\* Roadmap builder
\* Mutant of _task_to_dict: the tier is taken from the wrong field.
_task_to_dict_wrong_field(task) ==
    [ id |-> task.id, title |-> task.title, priority |-> task.priority,
      priority_name |-> _get_priority_name(task.expected_impact),
      pattern |-> task.pattern, system |-> task.system,
      estimated_effort |-> task.estimated_effort,
      expected_impact |-> task.expected_impact ]

_task_to_dict(task) ==
    [ id |-> task.id, title |-> task.title, priority |-> task.priority,
      priority_name |-> _get_priority_name(task.priority),
      pattern |-> task.pattern, system |-> task.system,
      estimated_effort |-> task.estimated_effort,
      expected_impact |-> task.expected_impact ]

TaskDicts(tasks) == [ i \in DOMAIN tasks |-> _task_to_dict(tasks[i]) ]

RECURSIVE SumImpact(_)
SumImpact(tasks) ==
    IF tasks = << >> THEN 0
    ELSE Head(tasks).expected_impact + SumImpact(Tail(tasks))

\* Mutant of PhaseImpact: the sum divided by the length with no guard for
\* an empty phase.
PhaseImpactUnguarded(tasks) == [ num |-> SumImpact(tasks), den |-> Len(tasks) ]

\* sum(...) / len(tasks) if tasks else 0, kept as the fraction num / den.
PhaseImpact(tasks) ==
    IF Len(tasks) > 0
      THEN [ num |-> SumImpact(tasks), den |-> Len(tasks) ]
      ELSE [ num |-> 0, den |-> 1 ]

\* Mutant of ImmediateTasks: phase 1 takes the PHI_CUBED tasks only.
ImmediateTasksCritical(tasks) == SelectSeq(tasks, LAMBDA t : t.priority >= PHI_CUBED)

ImmediateTasks(tasks) == SelectSeq(tasks, LAMBDA t : t.priority >= PHI_SQUARED)

\* Mutant of ProgressiveTasks: no upper bound.
ProgressiveTasksNoUpper(tasks) == SelectSeq(tasks, LAMBDA t : PHI <= t.priority)

\* Mutant of ProgressiveTasks: the lower bound is strict.
ProgressiveTasksStrict(tasks) ==
    SelectSeq(tasks, LAMBDA t : PHI < t.priority /\ t.priority < PHI_SQUARED)

ProgressiveTasks(tasks) ==
    SelectSeq(tasks, LAMBDA t : PHI <= t.priority /\ t.priority < PHI_SQUARED)

FutureTasks(tasks) == SelectSeq(tasks, LAMBDA t : t.priority < PHI)

Phase(name, tasks) ==
    [ name |-> name, tasks |-> TaskDicts(tasks), expected_impact |-> PhaseImpact(tasks) ]

\* Mutant of _generate_next_actions: the last task heads the list.
_generate_next_actions_last(tasks, weakest) ==
    IF tasks = << >>
      THEN << << "Run Sacred Geometry analysis to identify optimization opportunities", "" >> >>
      ELSE << << "START", tasks[Len(tasks)].title >>,
              << "Focus on pattern improvement", weakest >>,
              << "Run Sacred Geometry analysis weekly to track progress", "" >>,
              << "Measure improvements using phi-based metrics", "" >>,
              << "Celebrate Sacred Geometry alignment milestones", "" >> >>

\* A next action is << kind, argument >>: the text of the f-string and the
\* value it interpolates.
_generate_next_actions(tasks, weakest) ==
    IF tasks = << >>
      THEN << << "Run Sacred Geometry analysis to identify optimization opportunities", "" >> >>
      ELSE << << "START", tasks[1].title >>,
              << "Focus on pattern improvement", weakest >>,
              << "Run Sacred Geometry analysis weekly to track progress", "" >>,
              << "Measure improvements using phi-based metrics", "" >>,
              << "Celebrate Sacred Geometry alignment milestones", "" >> >>

\* The roadmap dict, without analysis_timestamp (a clock reading).
Roadmap(tasks, scores, weakest) ==
    [ current_sacred_geometry_score |-> scores,
      optimization_strategy |-> "phi-Priority Sacred Geometry Enhancement",
      phases |->
        [ phase_1_immediate |->
            Phase("phi^3 Critical Foundation (Weeks 1-2)", ImmediateTasks(tasks)),
          phase_2_progressive |->
            Phase("phi^2 Progressive Enhancement (Weeks 3-6)", ProgressiveTasks(tasks)),
          phase_3_optimization |->
            Phase("phi^1 Continuous Optimization (Ongoing)", FutureTasks(tasks)) ],
      success_metrics |->
        [ target_sacred_geometry_score |-> 85,
          expected_timeline |-> "6-8 weeks",
          key_patterns_to_improve |-> << weakest >>,
          measurement_intervals |-> "Weekly Sacred Geometry analysis" ],
      next_actions |-> _generate_next_actions(tasks, weakest) ]

\* ------------------------------------------------------------------------
\* The test categories of src/python_performance_fix_safe.py, in the order
\* main() declares and submits them.
Categories == << "phi_cubed", "phi_squared", "phi_first" >>

CategorySet == { Categories[i] : i \in DOMAIN Categories }

\* ------------------------------------------------------------------------
\* The state at the entry of main(): the working directory holds no analysis
\* file, one that is not JSON, or one holding a report.
Init ==
    /\ \/ /\ disk_state = "valid"
          /\ disk_report \in Reports
       \/ /\ disk_state \in {"none", "invalid"}
          /\ disk_report = EmptyDict
    /\ pc = "main"
    /\ analysis_data = EmptyDict
    /\ optimization_tasks = << >>
    /\ pattern_scores = EmptyDict
    /\ weakest_pattern = "unset"
    /\ strongest_pattern = "unset"
    /\ roadmap = EmptyDict
    /\ files_written = 0
    /\ priority_arg = 0
    /\ priority_name = "unset"
    /\ runs = 1
    /\ prior_roadmap = EmptyDict
    /\ clock = 0
    /\ storage = "ok"
    /\ plan_files = EmptyDict
    /\ save_calls = 0
    /\ open_handles = 0
    /\ enh_pc = "main"
    /\ self_pattern = "unset"
    /\ validation_results = EmptyDict
    /\ performance_results = EmptyDict
    /\ discovery_results = EmptyDict
    /\ recommendations = << >>
    /\ report_files = 0
    /\ exit_status = -1
    /\ run_pc = "main"
    /\ future_to_category = << >>
    /\ future_state = [ c \in CategorySet |-> "not_submitted" ]
    /\ future_value = [ c \in CategorySet |-> EmptyDict ]
    /\ results = EmptyDict
    /\ final_results = EmptyDict

\* open(...): one more file object is open.
open(handles) == handles + 1

\* Mutant of CloseOnExit: the file is closed by a close() call after the
\* body, which an exception skips.
CloseAfterBody(handles, raised) == IF raised THEN handles ELSE handles - 1

\* The end of a "with open(...) as f" block: __exit__ closes f whether the
\* body returned or raised.
CloseOnExit(handles, raised) == handles - 1

\* Mutant of MainNoAnalysisFile: the return is missing and main() goes on
\* with an optimizer that holds no data.
MainNoAnalysisFileGoesOn ==
    /\ pc = "main"
    /\ disk_state = "none"
    /\ pc' = "analyze"
    /\ UNCHANGED << disk_state, disk_report, optimizer, roadmap, files_written,
                    priority_arg, priority_name, rerun, export, open_handles,
                    other_programs >>

\* main(), lines 436-440: no analysis file, print and return.
MainNoAnalysisFile ==
    /\ pc = "main"
    /\ disk_state = "none"
    /\ pc' = "returned"
    /\ UNCHANGED << disk_state, disk_report, optimizer, roadmap, files_written,
                    priority_arg, priority_name, rerun, export, open_handles,
                    other_programs >>

\* Mutant of Construct: a parse error is swallowed and the optimizer holds {}.
ConstructSwallowsError ==
    /\ pc = "main"
    /\ disk_state # "none"
    /\ analysis_data' = disk_report
    /\ optimization_tasks' = << >>
    /\ pc' = "analyze"
    /\ open_handles' = CloseOnExit(open(open_handles), disk_state = "invalid")
    /\ UNCHANGED << disk_state, disk_report, pattern_scores, weakest_pattern,
                    strongest_pattern, roadmap, files_written, priority_arg,
                    priority_name, rerun, export,
                    other_programs >>

\* Mutant of Construct: optimization_tasks is one list shared by every
\* optimizer (a class attribute) and __init__ does not assign it.
ConstructSharesTasks ==
    /\ pc = "main"
    /\ disk_state # "none"
    /\ IF disk_state = "invalid"
         THEN /\ pc' = "raised"
              /\ UNCHANGED << analysis_data, optimization_tasks >>
         ELSE /\ analysis_data' = disk_report
              /\ UNCHANGED optimization_tasks
              /\ pc' = "analyze"
    /\ open_handles' = CloseOnExit(open(open_handles), disk_state = "invalid")
    /\ UNCHANGED << disk_state, disk_report, pattern_scores, weakest_pattern,
                    strongest_pattern, roadmap, files_written, priority_arg,
                    priority_name, rerun, export,
                    other_programs >>

\* SacredGeometryOptimizer(latest_analysis): __init__ and _load_analysis.
\* json.load raises on a file that is not JSON and main() does not catch it.
Construct ==
    /\ pc = "main"
    /\ disk_state # "none"
    /\ IF disk_state = "invalid"
         THEN /\ pc' = "raised"
              /\ UNCHANGED << analysis_data, optimization_tasks >>
         ELSE /\ analysis_data' = disk_report
              /\ optimization_tasks' = << >>
              /\ pc' = "analyze"
    /\ open_handles' = CloseOnExit(open(open_handles), disk_state = "invalid")
    /\ UNCHANGED << disk_state, disk_report, pattern_scores, weakest_pattern,
                    strongest_pattern, roadmap, files_written, priority_arg,
                    priority_name, rerun, export,
                    other_programs >>

_analyze_current_state ==
    /\ pc = "analyze"
    /\ pattern_scores' = PatternScores(analysis_data)
    /\ weakest_pattern' = MinPattern(pattern_scores')
    /\ strongest_pattern' = MaxPattern(pattern_scores')
    /\ pc' = "circle"
    /\ UNCHANGED << disk_state, disk_report, analysis_data, optimization_tasks,
                    roadmap, files_written, priority_arg, priority_name, rerun,
                    export, open_handles,
                    other_programs >>

\* Mutant of Generate: the tasks are put in front of the list.
GeneratePrepends(at, appended, next) ==
    /\ pc = at
    /\ optimization_tasks' = appended \o optimization_tasks
    /\ pc' = next
    /\ UNCHANGED << disk_state, disk_report, analysis_data, pattern_scores,
                    weakest_pattern, strongest_pattern, roadmap, files_written,
                    priority_arg, priority_name, rerun, export, open_handles,
                    other_programs >>

\* One generator call: append its tasks and move to the next call.
Generate(at, appended, next) ==
    /\ pc = at
    /\ optimization_tasks' = optimization_tasks \o appended
    /\ pc' = next
    /\ UNCHANGED << disk_state, disk_report, analysis_data, pattern_scores,
                    weakest_pattern, strongest_pattern, roadmap, files_written,
                    priority_arg, priority_name, rerun, export, open_handles,
                    other_programs >>

_generate_circle_tasks == Generate("circle", CircleTasks(pattern_scores), "triangle")

_generate_triangle_tasks ==
    Generate("triangle", TriangleTasks(pattern_scores, weakest_pattern), "spiral")

_generate_spiral_tasks == Generate("spiral", SpiralTasks(pattern_scores), "golden_ratio")

_generate_golden_ratio_tasks ==
    Generate("golden_ratio", GoldenRatioTasks(pattern_scores), "fractal")

_generate_fractal_tasks == Generate("fractal", FractalTasks(pattern_scores), "prioritize")

_prioritize_tasks ==
    /\ pc = "prioritize"
    /\ optimization_tasks' = SortByPriority(optimization_tasks)
    /\ pc' = "roadmap"
    /\ UNCHANGED << disk_state, disk_report, analysis_data, pattern_scores,
                    weakest_pattern, strongest_pattern, roadmap, files_written,
                    priority_arg, priority_name, rerun, export, open_handles,
                    other_programs >>

\* Mutant of _create_implementation_roadmap: the tasks are moved out of
\* optimization_tasks into the phases.
_create_implementation_roadmap_consumes ==
    /\ pc = "roadmap"
    /\ roadmap' = Roadmap(optimization_tasks, pattern_scores, weakest_pattern)
    /\ optimization_tasks' = << >>
    /\ pc' = "save"
    /\ UNCHANGED << disk_state, disk_report, analysis_data, pattern_scores,
                    weakest_pattern, strongest_pattern, files_written,
                    priority_arg, priority_name, rerun, export, open_handles,
                    other_programs >>

_create_implementation_roadmap ==
    /\ pc = "roadmap"
    /\ roadmap' = Roadmap(optimization_tasks, pattern_scores, weakest_pattern)
    /\ pc' = "save"
    /\ UNCHANGED << disk_state, disk_report, optimizer, files_written,
                    priority_arg, priority_name, rerun, export, open_handles,
                    other_programs >>

\* filename = f"sacred_geometry_optimization_plan_{int(time.time())}.json":
\* the whole seconds of the clock reading name the file.
DefaultFilename(now) == now \div TicksPerSecond

\* The files after path is written with content.
WriteFile(files, path, content) ==
    [ f \in DOMAIN files \cup {path} |-> IF f = path THEN content ELSE files[f] ]

\* Mutant of save_optimization_plan: a failure is swallowed and the call
\* returns as if the plan were saved.
save_optimization_plan_silent ==
    /\ pc = "save"
    /\ save_calls' = save_calls + 1
    /\ LET filepath == DefaultFilename(clock)
       IN  CASE storage = "ok" ->
                  /\ plan_files' = WriteFile(plan_files, filepath,
                                             [ complete |-> TRUE, content |-> roadmap ])
                  /\ files_written' = files_written + 1
             [] storage = "open_fails" ->
                  /\ UNCHANGED << plan_files, files_written >>
             [] storage = "write_fails" ->
                  /\ plan_files' = WriteFile(plan_files, filepath,
                                             [ complete |-> FALSE, content |-> roadmap ])
                  /\ UNCHANGED files_written
    /\ pc' = "done"
    /\ open_handles' =
         IF storage = "open_fails" THEN open_handles
         ELSE CloseOnExit(open(open_handles), storage = "write_fails")
    /\ UNCHANGED << disk_state, disk_report, optimizer, roadmap, priority_arg,
                    priority_name, rerun, clock, storage,
                    other_programs >>

\* save_optimization_plan(roadmap) with filename=None.  open(filepath, 'w')
\* raises, or creates or truncates the file; json.dump then writes the
\* roadmap or raises part-way, leaving a part of it.  An exception leaves the
\* with block, closing the file, and reaches the caller.
save_optimization_plan ==
    /\ pc = "save"
    /\ save_calls' = save_calls + 1
    /\ LET filepath == DefaultFilename(clock)
       IN  CASE storage = "ok" ->
                  /\ plan_files' = WriteFile(plan_files, filepath,
                                             [ complete |-> TRUE, content |-> roadmap ])
                  /\ files_written' = files_written + 1
                  /\ pc' = "done"
             [] storage = "open_fails" ->
                  /\ UNCHANGED << plan_files, files_written >>
                  /\ pc' = "save_raised"
             [] storage = "write_fails" ->
                  /\ plan_files' = WriteFile(plan_files, filepath,
                                             [ complete |-> FALSE, content |-> roadmap ])
                  /\ UNCHANGED files_written
                  /\ pc' = "save_raised"
    /\ open_handles' =
         IF storage = "open_fails" THEN open_handles
         ELSE CloseOnExit(open(open_handles), storage = "write_fails")
    /\ UNCHANGED << disk_state, disk_report, optimizer, roadmap, priority_arg,
                    priority_name, rerun, clock, storage,
                    other_programs >>

Next ==
    \/ MainNoAnalysisFile
    \/ Construct
    \/ _analyze_current_state
    \/ _generate_circle_tasks
    \/ _generate_triangle_tasks
    \/ _generate_spiral_tasks
    \/ _generate_golden_ratio_tasks
    \/ _generate_fractal_tasks
    \/ _prioritize_tasks
    \/ _create_implementation_roadmap
    \/ save_optimization_plan

Spec == Init /\ [][Next]_vars

\* ------------------------------------------------------------------------
\* The classifier on its own: a caller holding an optimizer calls
\* _get_priority_name with any weight, once, at any point of the run; the
\* method assigns nothing.
GetPriorityName ==
    /\ pc \notin {"main", "returned", "raised"}
    /\ priority_name = "unset"
    /\ \E w \in -1..MaxWeight :
          /\ priority_arg' = w
          /\ priority_name' = _get_priority_name(w)
    /\ UNCHANGED << disk_state, disk_report, pc, optimizer, roadmap, files_written,
                    rerun, export, open_handles,
                    other_programs >>

\* Scores 0.6, 0.9, 0.65, 0.4, 0.75 for Circle, Triangle, Spiral, Golden
\* Ratio, Fractal.
ScenarioAScores ==
    [ k \in KeySet |->
        CASE k = "circle_completeness" -> 60
          [] k = "triangle_stability" -> 90
          [] k = "spiral_growth" -> 65
          [] k = "golden_ratio_optimization" -> 40
          [] k = "fractal_consistency" -> 75 ]

ReportOf(scores) == [k \in {"overall_analysis"} |-> [j \in {"average_scores"} |-> scores]]

InitClassify ==
    /\ Init
    /\ disk_state = "valid" => disk_report = ReportOf(ScenarioAScores)

NextClassify == Next \/ GetPriorityName

SpecClassify == InitClassify /\ [][NextClassify]_vars

\* ------------------------------------------------------------------------
\* A further run on the same report: the caller drops the optimizer and its
\* roadmap and constructs a fresh one.  A new object has none of the
\* attributes _analyze_current_state sets; analysis_data and
\* optimization_tasks are whatever __init__ will assign.
FreshOptimizer ==
    /\ pc = "done"
    /\ runs < MaxRuns
    /\ runs' = runs + 1
    /\ prior_roadmap' = roadmap
    /\ roadmap' = EmptyDict
    /\ pattern_scores' = EmptyDict
    /\ weakest_pattern' = "unset"
    /\ strongest_pattern' = "unset"
    /\ pc' = "main"
    /\ UNCHANGED << disk_state, disk_report, analysis_data, optimization_tasks,
                    files_written, priority_arg, priority_name, export, open_handles,
                    other_programs >>

\* The reports of the runs that are repeated: every score present, or the
\* score mapping missing.
InitRerun ==
    /\ Init
    /\ disk_state = "valid" =>
         \/ "overall_analysis" \notin DOMAIN disk_report
         \/ "average_scores" \notin DOMAIN disk_report["overall_analysis"]
         \/ DOMAIN disk_report["overall_analysis"]["average_scores"] = KeySet

NextRerun == Next \/ FreshOptimizer

SpecRerun == InitRerun /\ [][NextRerun]_vars

\* ------------------------------------------------------------------------
\* A further call on the same optimizer: the caller keeps the optimizer and
\* calls generate_optimization_plan again.  The method starts at
\* _analyze_current_state; nothing on the way resets optimization_tasks,
\* which __init__ alone assigns.
PlanAgain ==
    /\ pc = "done"
    /\ runs < MaxRuns
    /\ runs' = runs + 1
    /\ prior_roadmap' = roadmap
    /\ pc' = "analyze"
    /\ UNCHANGED << disk_state, disk_report, optimizer, roadmap, files_written,
                    priority_arg, priority_name, export, open_handles,
                    other_programs >>

NextReplan == Next \/ PlanAgain

SpecReplan == InitRerun /\ [][NextReplan]_vars

\* ------------------------------------------------------------------------
\* The export on its own: time passes and the storage comes and goes before
\* a save, and a caller holding the roadmap saves it again.
Tick ==
    /\ pc = "save"
    /\ clock < MaxClock
    /\ clock' = clock + 1
    /\ UNCHANGED << disk_state, disk_report, pc, optimizer, roadmap, files_written,
                    priority_arg, priority_name, rerun, storage, plan_files,
                    save_calls, open_handles,
                    other_programs >>

StorageChanges ==
    /\ pc = "save"
    /\ \E s \in {"ok", "open_fails", "write_fails"} \ {storage} : storage' = s
    /\ UNCHANGED << disk_state, disk_report, pc, optimizer, roadmap, files_written,
                    priority_arg, priority_name, rerun, clock, plan_files,
                    save_calls, open_handles,
                    other_programs >>

SaveAgain ==
    /\ pc \in {"done", "save_raised"}
    /\ save_calls < MaxSaves
    /\ pc' = "save"
    /\ UNCHANGED << disk_state, disk_report, optimizer, roadmap, files_written,
                    priority_arg, priority_name, rerun, export, open_handles,
                    other_programs >>

NextSave == Next \/ Tick \/ StorageChanges \/ SaveAgain

InitSave == InitClassify

SpecSave == InitSave /\ [][NextSave]_vars

\* ------------------------------------------------------------------------
\* src/sacred_geometry_automation_enhancer.py.  Percentages are hundredths
\* of a percent (61.8 % is 6180); 100 / PHI is taken as 61.80 %.
FIBONACCI == << 1, 1, 2, 3, 5, 8, 13, 21, 34, 55, 89, 144 >>

\* --pattern choices of main().
PatternChoices == {"Circle", "Triangle", "Spiral", "GoldenRatio", "Fractal"}

\* What the conda commands report: conda missing or failing, no
\* sacred-geometry-ai environment, an environment listing 3 packages, one
\* listing 10 or more (env_packages keeps the first 10).
CondaStates == {"no_conda", "no_env", "env_3_packages", "env_10_packages"}

\* Where the performance probe raises: nowhere, in the system metrics calls
\* (before system_metrics is assigned), or in the process scan (after it).
ProbeFailures == {"none", "system_metrics", "process_analysis"}

\* CPU and memory utilization readings, in whole percent.
Utilizations == {20, 62, 90}

\* What the discovery finds: it raises, or it counts this many automations.
Discoveries == {-1, 0, 4, 9, 10}

Min(a, b) == IF a < b THEN a ELSE b

Max(a, b) == IF a > b THEN a ELSE b

Abs(a) == IF a < 0 THEN -a ELSE a

\* validate_conda_environment: the validation dict (env_packages by length).
Validation(conda) ==
    LET conda_available     == conda # "no_conda"
        sacred_geometry_env == conda \in {"env_3_packages", "env_10_packages"}
        env_packages        == CASE conda = "env_3_packages" -> 3
                                 [] conda = "env_10_packages" -> 10
                                 [] OTHER -> 0
        base_score == (IF conda_available THEN 40 ELSE 0)
                        + (IF sacred_geometry_env THEN 40 ELSE 0)
                        + (IF env_packages > 5 THEN 20 ELSE 0)
    IN  [ conda_available |-> conda_available,
          sacred_geometry_env |-> sacred_geometry_env,
          env_packages |-> env_packages,
          compliance_score |-> Min(10000, (base_score * PHI) \div 20) ]

\* analyze_automation_performance: the performance dict.  An exception in
\* the try block is caught and the dict is returned as filled so far.
Performance(fails, cpu_percent, memory_percent) ==
    LET system_metrics ==
            [ k \in {"cpu_utilization", "memory_utilization"} |->
                IF k = "cpu_utilization" THEN cpu_percent * 100
                ELSE memory_percent * 100 ]
        cpu_efficiency    == Abs(cpu_percent * 100 - 6180)
        memory_efficiency == Abs(memory_percent * 100 - 6180)
        optimization_score ==
            Max(0, 10000 - (cpu_efficiency + memory_efficiency) \div 2)
    IN  CASE fails = "system_metrics" ->
               [ system_metrics |-> EmptyDict, process_analysis |-> EmptyDict,
                 optimization_score |-> 0, sacred_geometry_factors |-> EmptyDict ]
          [] fails = "process_analysis" ->
               [ system_metrics |-> system_metrics, process_analysis |-> EmptyDict,
                 optimization_score |-> 0, sacred_geometry_factors |-> EmptyDict ]
          [] fails = "none" ->
               [ system_metrics |-> system_metrics,
                 process_analysis |-> [ k \in {"automation_processes"} |-> 1 ],
                 optimization_score |-> optimization_score,
                 sacred_geometry_factors |->
                   [ k \in {"cpu_deviation", "memory_deviation"} |->
                       IF k = "cpu_deviation" THEN cpu_efficiency
                       ELSE memory_efficiency ] ]

\* discover_existing_automations: the discovery dict; found < 0 stands for
\* an exception, caught with the counters still at their initial 0.
Discovery(found) ==
    IF found < 0
      THEN [ total_automations |-> 0, sacred_geometry_score |-> 0 ]
      ELSE LET fib_index == Min(Len(FIBONACCI) - 1, found)
               fibonacci_weight == FIBONACCI[fib_index + 1]
           IN  [ total_automations |-> found,
                 sacred_geometry_score |-> Min(10000, (fibonacci_weight * PHI) \div 10) ]

\* The list generate_enhancement_recommendations returns when it returns.
Recommendations(validation, performance, discovery, pattern_arg) ==
    (IF validation["compliance_score"] < 8000 THEN << "Optimize conda environment" >> ELSE << >>)
    \o (IF ~validation["sacred_geometry_env"] THEN << "Create sacred-geometry-ai" >> ELSE << >>)
    \o (IF performance["optimization_score"] < 7000 THEN << "Optimize system performance" >> ELSE << >>)
    \o (IF performance["system_metrics"]["cpu_utilization"] > 8000
          THEN << "High CPU utilization" >> ELSE << >>)
    \o (IF performance["system_metrics"]["memory_utilization"] > 8000
          THEN << "High memory usage" >> ELSE << >>)
    \o (IF discovery["total_automations"] < 5 THEN << "Increase automation coverage" >> ELSE << >>)
    \o (IF discovery["sacred_geometry_score"] < 6180 THEN << "Enhance automation" >> ELSE << >>)
    \o (CASE pattern_arg = "Circle" -> << "Implement complete automation cycles" >>
          [] pattern_arg = "Triangle" -> << "Establish three-tier architecture" >>
          [] pattern_arg = "Spiral" -> << "Implement progressive enhancement" >>
          [] OTHER -> << >>)
    \o << "Enable continuous performance monitoring",
          "Implement Fibonacci-based task prioritization",
          "Apply Sacred Geometry patterns" >>

\* round(x / 3, 2) for x in hundredths: the nearest hundredth of x / 3.
RoundedThird(x) == (2 * x + 3) \div 6

\* main(), lines 572-582: parse --pattern and construct the enhancer.
EnhancerMain ==
    /\ enh_pc = "main"
    /\ \E p \in PatternChoices : self_pattern' = p
    /\ enh_pc' = "validate"
    /\ UNCHANGED << validation_results, performance_results, discovery_results,
                    recommendations, report_files, exit_status >>

validate_conda_environment ==
    /\ enh_pc = "validate"
    /\ \E conda \in CondaStates : validation_results' = Validation(conda)
    /\ enh_pc' = "analyze"
    /\ UNCHANGED << self_pattern, performance_results, discovery_results,
                    recommendations, report_files, exit_status >>

analyze_automation_performance ==
    /\ enh_pc = "analyze"
    /\ \E fails \in ProbeFailures : \E cpu_percent, memory_percent \in Utilizations :
          performance_results' = Performance(fails, cpu_percent, memory_percent)
    /\ enh_pc' = "discover"
    /\ UNCHANGED << self_pattern, validation_results, discovery_results,
                    recommendations, report_files, exit_status >>

discover_existing_automations ==
    /\ enh_pc = "discover"
    /\ \E found \in Discoveries : discovery_results' = Discovery(found)
    /\ enh_pc' = "recommend"
    /\ UNCHANGED << self_pattern, validation_results, performance_results,
                    recommendations, report_files, exit_status >>

\* Mutant of generate_enhancement_recommendations: the utilization checks
\* are skipped when system_metrics is empty.
generate_enhancement_recommendations_tolerant ==
    /\ enh_pc = "recommend"
    /\ recommendations' =
         IF "cpu_utilization" \in DOMAIN performance_results["system_metrics"]
           THEN Recommendations(validation_results, performance_results,
                                discovery_results, self_pattern)
           ELSE << "Apply Sacred Geometry patterns" >>
    /\ enh_pc' = "export"
    /\ UNCHANGED << self_pattern, validation_results, performance_results,
                    discovery_results, report_files, exit_status >>

\* performance["system_metrics"]["cpu_utilization"] raises KeyError on an
\* empty system_metrics; run_comprehensive_enhancement does not catch it.
generate_enhancement_recommendations ==
    /\ enh_pc = "recommend"
    /\ IF "cpu_utilization" \in DOMAIN performance_results["system_metrics"]
         THEN /\ recommendations' =
                   Recommendations(validation_results, performance_results,
                                   discovery_results, self_pattern)
              /\ enh_pc' = "export"
         ELSE /\ UNCHANGED recommendations
              /\ enh_pc' = "except"
    /\ UNCHANGED << self_pattern, validation_results, performance_results,
                    discovery_results, report_files, exit_status >>

\* export_enhancement_report: the report text reads system_metrics,
\* process_analysis and sacred_geometry_factors by key (KeyError, outside
\* the try); the write is inside a try that turns a failure into
\* report_path = None.
export_enhancement_report ==
    /\ enh_pc = "export"
    /\ IF /\ "cpu_utilization" \in DOMAIN performance_results["system_metrics"]
          /\ "automation_processes" \in DOMAIN performance_results["process_analysis"]
          /\ "cpu_deviation" \in DOMAIN performance_results["sacred_geometry_factors"]
         THEN /\ \E written \in BOOLEAN :
                    report_files' = IF written THEN report_files + 1 ELSE report_files
              /\ enh_pc' = "finish"
         ELSE /\ UNCHANGED report_files
              /\ enh_pc' = "except"
    /\ UNCHANGED << self_pattern, validation_results, performance_results,
                    discovery_results, recommendations, exit_status >>

\* run_comprehensive_enhancement, lines 535-567, and main(), line 588.
EnhancerReturn ==
    /\ enh_pc = "finish"
    /\ LET overall_score ==
             RoundedThird(validation_results["compliance_score"]
                            + performance_results["optimization_score"]
                            + discovery_results["sacred_geometry_score"])
       IN  exit_status' = IF overall_score >= 6000 THEN 0 ELSE 1
    /\ enh_pc' = "exited"
    /\ UNCHANGED << self_pattern, validation_results, performance_results,
                    discovery_results, recommendations, report_files >>

\* main(), lines 590-592: except Exception, return 1.
EnhancerExcept ==
    /\ enh_pc = "except"
    /\ exit_status' = 1
    /\ enh_pc' = "exited"
    /\ UNCHANGED << self_pattern, validation_results, performance_results,
                    discovery_results, recommendations, report_files >>

\* The optimizer's variables and the runner's: the enhancer touches neither.
optimizer_program ==
    << disk_state, disk_report, pc, optimizer, roadmap, files_written,
       priority_arg, priority_name, rerun, export, open_handles >>

NextEnhancer ==
    /\ \/ EnhancerMain
       \/ validate_conda_environment
       \/ analyze_automation_performance
       \/ discover_existing_automations
       \/ generate_enhancement_recommendations
       \/ export_enhancement_report
       \/ EnhancerReturn
       \/ EnhancerExcept
    /\ UNCHANGED << optimizer_program, runner >>

InitEnhancer == Init /\ disk_state = "none"

SpecEnhancer == InitEnhancer /\ [][NextEnhancer]_vars

\* ------------------------------------------------------------------------
\* src/python_performance_fix_safe.py: main() submits run_test_category for
\* each category to a pool of three worker threads, then takes the futures'
\* results in submission order.  Only the main thread writes results.
\* duration and phi_score are left out of the entries; an entry is a dict of
\* strings, with "True" and "False" for the two values of success.

\* How a run_test_category call ends: it returns its success entry, it
\* catches an exception and returns its failure entry, or an exception
\* leaves it and is kept by the future.
WorkerOutcomes == {"returns", "catches", "escapes"}

\* What run_test_category(category, ...) returns, and {} if it raises.
RunTestCategory(category, outcome) ==
    CASE outcome = "returns" ->
           [ k \in {"success", "tests_run", "category"} |->
               CASE k = "success" -> "True" [] k = "tests_run" -> "3" [] OTHER -> category ]
      [] outcome = "catches" ->
           [ k \in {"success", "error", "category"} |->
               CASE k = "success" -> "False" [] k = "error" -> "str(e)" [] OTHER -> category ]
      [] outcome = "escapes" -> EmptyDict

\* The entry main() stores for a future: its result, or the entry of the
\* except branch when future.result() raises.
ResultEntry(value) ==
    IF DOMAIN value # {}
      THEN value
      ELSE [ k \in {"success", "error"} |->
               IF k = "success" THEN "False" ELSE "str(e)" ]

\* r.get("success", False)
Succeeded(entry) == DictGet(entry, "success", "False") = "True"

\* main(), lines 133-155.
RunnerMain ==
    /\ run_pc = "main"
    /\ results' = EmptyDict
    /\ run_pc' = "submit"
    /\ UNCHANGED << future_to_category, future_state, future_value, final_results >>

\* One executor.submit of the dict comprehension, lines 159-162.
RunnerSubmit ==
    /\ run_pc = "submit"
    /\ LET category == Categories[Len(future_to_category) + 1]
       IN  /\ future_to_category' = Append(future_to_category, category)
           /\ future_state' = [ future_state EXCEPT ![category] = "pending" ]
    /\ run_pc' = IF Len(future_to_category') = Len(Categories) THEN "collect" ELSE "submit"
    /\ UNCHANGED << future_value, results, final_results >>

\* A pool thread takes a submitted call.
WorkerStarts(category) ==
    /\ future_state[category] = "pending"
    /\ future_state' = [ future_state EXCEPT ![category] = "running" ]
    /\ UNCHANGED << run_pc, future_to_category, future_value, results, final_results >>

\* The call ends and its future is done.
WorkerEnds(category) ==
    /\ future_state[category] = "running"
    /\ \E outcome \in WorkerOutcomes :
          future_value' = [ future_value EXCEPT ![category] = RunTestCategory(category, outcome) ]
    /\ future_state' = [ future_state EXCEPT ![category] = "done" ]
    /\ UNCHANGED << run_pc, future_to_category, results, final_results >>

\* The futures main() has not taken yet, in submission order.
Untaken == SelectSeq(future_to_category, LAMBDA c : future_state[c] # "taken")

\* Mutant of RunnerCollect: the except branch stores nothing.
RunnerCollectDropsFailure ==
    /\ run_pc = "collect"
    /\ LET category == Head(Untaken)
       IN  /\ future_state[category] = "done"
           /\ results' =
                IF DOMAIN future_value[category] # {}
                  THEN [ c \in DOMAIN results \cup {category} |->
                           IF c = category THEN ResultEntry(future_value[category])
                           ELSE results[c] ]
                  ELSE results
           /\ future_state' = [ future_state EXCEPT ![category] = "taken" ]
    /\ run_pc' = IF Len(Untaken) = 1 THEN "metrics" ELSE "collect"
    /\ UNCHANGED << future_to_category, future_value, final_results >>

\* One turn of the loop at lines 164-170: future.result() waits until the
\* future is done, then results[category] is assigned.
RunnerCollect ==
    /\ run_pc = "collect"
    /\ LET category == Head(Untaken)
       IN  /\ future_state[category] = "done"
           /\ results' =
                [ c \in DOMAIN results \cup {category} |->
                    IF c = category THEN ResultEntry(future_value[category])
                    ELSE results[c] ]
           /\ future_state' = [ future_state EXCEPT ![category] = "taken" ]
    /\ run_pc' = IF Len(Untaken) = 1 THEN "metrics" ELSE "collect"
    /\ UNCHANGED << future_to_category, future_value, final_results >>

\* Mutant of RunnerMetrics: overall_success asks for one success only.
RunnerMetricsAnySuccess ==
    /\ run_pc = "metrics"
    /\ LET successful_results == { c \in DOMAIN results : Succeeded(results[c]) }
       IN  final_results' =
             [ overall_success |-> Cardinality(successful_results) > 0,
               successes |-> Cardinality(successful_results),
               entries |-> Cardinality(DOMAIN results) ]
    /\ run_pc' = "done"
    /\ UNCHANGED << future_to_category, future_state, future_value, results >>

\* main(), lines 172-243: the metrics over results.
RunnerMetrics ==
    /\ run_pc = "metrics"
    /\ LET successful_results == { c \in DOMAIN results : Succeeded(results[c]) }
       IN  final_results' =
             [ overall_success |->
                 Cardinality(successful_results) = Cardinality(DOMAIN results),
               successes |-> Cardinality(successful_results),
               entries |-> Cardinality(DOMAIN results) ]
    /\ run_pc' = "done"
    /\ UNCHANGED << future_to_category, future_state, future_value, results >>

NextRunner ==
    /\ \/ RunnerMain
       \/ RunnerSubmit
       \/ \E category \in CategorySet : WorkerStarts(category)
       \/ \E category \in CategorySet : WorkerEnds(category)
       \/ RunnerCollect
       \/ RunnerMetrics
    /\ UNCHANGED << optimizer_program, enhancer >>

InitRunner == Init /\ disk_state = "none"

SpecRunner == InitRunner /\ [][NextRunner]_vars

\* ------------------------------------------------------------------------
\* Vocabulary of the properties

\* _analyze_current_state has run: pattern_scores and weakest_pattern are set.
Analyzed == pc \in {"circle", "triangle", "spiral", "golden_ratio", "fractal",
                    "prioritize", "roadmap", "save", "done"}

\* All five generators have run.
Generated == pc \in {"prioritize", "roadmap", "save", "done"}

\* generate_optimization_plan has returned its roadmap.
Built == pc \in {"save", "done"}

Phase1 == roadmap.phases.phase_1_immediate

Phase2 == roadmap.phases.phase_2_progressive

Phase3 == roadmap.phases.phase_3_optimization

Count(x, seq) == Cardinality({ i \in DOMAIN seq : seq[i] = x })

Ids(seq) == [ i \in DOMAIN seq |-> seq[i].id ]

HasTask(id) == \E i \in DOMAIN optimization_tasks : optimization_tasks[i].id = id

HasTaskAt(id, priority) ==
    \E i \in DOMAIN optimization_tasks :
        /\ optimization_tasks[i].id = id
        /\ optimization_tasks[i].priority = priority

\* The threshold-gated first task of each pattern, and the one secondary task
\* (CIRCLE_002, gated at 0.8).  GOLDEN_RATIO_002 is the unconditional task.
PrimaryId(p) ==
    CASE p = "Circle" -> "CIRCLE_001"
      [] p = "Triangle" -> "TRIANGLE_001"
      [] p = "Spiral" -> "SPIRAL_001"
      [] p = "Golden Ratio" -> "GOLDEN_RATIO_001"
      [] p = "Fractal" -> "FRACTAL_001"

NonIncreasing(tasks) ==
    \A i \in 1..(Len(tasks) - 1) : tasks[i].priority >= tasks[i + 1].priority

WithPriority(tasks, w) == SelectSeq(tasks, LAMBDA t : t.priority = w)

\* after holds the tasks of before, and tasks of equal weight in the order
\* they have in before.
KeepsEqualWeightOrder(before, after) ==
    /\ Len(after) = Len(before)
    /\ \A i \in DOMAIN before :
         WithPriority(after, before[i].priority) = WithPriority(before, before[i].priority)

AllScoresAtLeast80 == \A p \in PatternSet : pattern_scores[p] >= 80

IsScenarioA == disk_state = "valid" /\ disk_report = ReportOf(ScenarioAScores)

\* The report has no overall_analysis.average_scores field.
LacksScoreMapping ==
    /\ disk_state = "valid"
    /\ \/ "overall_analysis" \notin DOMAIN disk_report
       \/ "average_scores" \notin DOMAIN disk_report["overall_analysis"]

\* The report has an average_scores mapping with no category in it.
ZeroCategories ==
    /\ disk_state = "valid"
    /\ "overall_analysis" \in DOMAIN disk_report
    /\ "average_scores" \in DOMAIN disk_report["overall_analysis"]
    /\ DOMAIN disk_report["overall_analysis"]["average_scores"] = {}

\* ------------------------------------------------------------------------
\* C1: in every built roadmap each generated task lies in exactly one phase:
\* the three phases' task lists together hold every entry of the task list
\* as often as the task list does, and nothing else.
C1_TotalPartition ==
    Built =>
        LET all == TaskDicts(optimization_tasks)
        IN  /\ Len(Phase1.tasks) + Len(Phase2.tasks) + Len(Phase3.tasks) = Len(all)
            /\ \A i \in DOMAIN all :
                 Count(all[i], Phase1.tasks) + Count(all[i], Phase2.tasks)
                   + Count(all[i], Phase3.tasks) = Count(all[i], all)

\* A built roadmap with tasks in two phases.
C1_Witness == Built /\ Len(Phase1.tasks) >= 2 /\ Len(Phase2.tasks) >= 2

\* C2 as claimed: once the generators have run, every pattern scoring below
\* 0.7 has its primary task, at PHI_CUBED if the pattern is the weakest and
\* at PHI_SQUARED otherwise.
C2_AsClaimed ==
    Generated =>
        \A p \in PatternSet :
            pattern_scores[p] < 70 =>
                HasTaskAt(PrimaryId(p),
                          IF weakest_pattern = p THEN PHI_CUBED ELSE PHI_SQUARED)

\* C2 amended: the primary rule fires below 0.7 (Golden Ratio: below 0.5,
\* and not from 0.5 on); only Triangle's weight depends on the weakest pattern;
\* Circle and Golden Ratio are always PHI_CUBED, Spiral PHI_SQUARED, Fractal PHI.
C2_PrimaryRule ==
    Generated =>
        /\ pattern_scores["Circle"] < 70 => HasTaskAt("CIRCLE_001", PHI_CUBED)
        /\ pattern_scores["Triangle"] < 70 =>
             HasTaskAt("TRIANGLE_001",
                       IF weakest_pattern = "Triangle" THEN PHI_CUBED ELSE PHI_SQUARED)
        /\ pattern_scores["Spiral"] < 70 => HasTaskAt("SPIRAL_001", PHI_SQUARED)
        /\ pattern_scores["Golden Ratio"] < 50 => HasTaskAt("GOLDEN_RATIO_001", PHI_CUBED)
        /\ pattern_scores["Golden Ratio"] >= 50 => ~HasTask("GOLDEN_RATIO_001")
        /\ pattern_scores["Fractal"] < 70 => HasTaskAt("FRACTAL_001", PHI)
        /\ \A p \in PatternSet :
             Count(PrimaryId(p), Ids(optimization_tasks)) <= 1

\* Triangle is the weakest and below 0.7, Circle and Spiral are below 0.7 and
\* not the weakest, Golden Ratio lies between 0.5 and 0.7.
C2_Witness ==
    /\ Generated
    /\ weakest_pattern = "Triangle"
    /\ pattern_scores["Triangle"] < 70
    /\ pattern_scores["Circle"] < 70
    /\ pattern_scores["Spiral"] < 70
    /\ pattern_scores["Golden Ratio"] >= 50
    /\ pattern_scores["Golden Ratio"] < 70
    /\ pattern_scores["Fractal"] < 70

\* C3: no pattern scoring 0.7 or more has its primary task in the task list,
\* and a Circle score of 0.8 or more leaves the secondary task out.
C3_ThresholdCorrectness ==
    Analyzed =>
        /\ \A p \in PatternSet :
             pattern_scores[p] >= 70 => ~HasTask(PrimaryId(p))
        /\ pattern_scores["Circle"] >= 80 => ~HasTask("CIRCLE_002")

\* The generators have run on scores on and above the thresholds.
C3_Witness ==
    /\ Generated
    /\ pattern_scores["Circle"] = 80
    /\ pattern_scores["Triangle"] = 70
    /\ pattern_scores["Spiral"] = 75
    /\ pattern_scores["Golden Ratio"] = 70
    /\ pattern_scores["Fractal"] = 90

\* C4 as claimed: with all five scores at 0.8 or more the built roadmap has
\* no task, three empty phases of impact 0 and one fallback next action.
C4_AsClaimed ==
    (Built /\ AllScoresAtLeast80) =>
        /\ optimization_tasks = << >>
        /\ Phase1.tasks = << >> /\ Phase1.expected_impact.num = 0
        /\ Phase2.tasks = << >> /\ Phase2.expected_impact.num = 0
        /\ Phase3.tasks = << >> /\ Phase3.expected_impact.num = 0
        /\ Len(roadmap.next_actions) = 1

\* C4 amended: with all five scores at 0.8 or more exactly one task is
\* generated, the unconditional GOLDEN_RATIO_002 at weight PHI; phases 1 and
\* 3 are empty with impact 0, phase 2 holds that task with impact 0.8, and
\* next_actions is the five-entry list headed by that task's title.
C4_AllHighScores ==
    (Built /\ AllScoresAtLeast80) =>
        /\ Ids(optimization_tasks) = << "GOLDEN_RATIO_002" >>
        /\ optimization_tasks[1].priority = PHI
        /\ Phase1.tasks = << >> /\ Phase1.expected_impact.num = 0
        /\ Ids(Phase2.tasks) = << "GOLDEN_RATIO_002" >>
        /\ Phase2.expected_impact = [ num |-> 80, den |-> 1 ]
        /\ Phase3.tasks = << >> /\ Phase3.expected_impact.num = 0
        /\ Len(roadmap.next_actions) = 5
        /\ roadmap.next_actions[1] = << "START", optimization_tasks[1].title >>

\* A built roadmap for scores that are all 0.8 or more.
C4_Witness == Built /\ AllScoresAtLeast80 /\ pattern_scores["Golden Ratio"] = 80

\* C5 as claimed: scenario A yields exactly three tasks, all in phase 1: the
\* Golden Ratio primary task at PHI_CUBED, then the Circle and Spiral primary
\* tasks at PHI_SQUARED; phases 2 and 3 are empty with impact 0.
C5_AsClaimed ==
    (Built /\ IsScenarioA) =>
        /\ Ids(optimization_tasks) = << "GOLDEN_RATIO_001", "CIRCLE_001", "SPIRAL_001" >>
        /\ Ids(Phase1.tasks) = << "GOLDEN_RATIO_001", "CIRCLE_001", "SPIRAL_001" >>
        /\ Phase1.tasks[1].priority = PHI_CUBED
        /\ Phase1.tasks[2].priority = PHI_SQUARED
        /\ Phase1.tasks[3].priority = PHI_SQUARED
        /\ Phase2.tasks = << >> /\ Phase2.expected_impact.num = 0
        /\ Phase3.tasks = << >> /\ Phase3.expected_impact.num = 0

\* C5 amended: scenario A yields five tasks.  Phase 1 holds CIRCLE_001 and
\* GOLDEN_RATIO_001 at PHI_CUBED (Critical), then CIRCLE_002 and SPIRAL_001 at
\* PHI_SQUARED (High); phase 2 holds the unconditional GOLDEN_RATIO_002 at PHI
\* (Medium) with impact 0.8; Triangle (0.9) and Fractal (0.75) contribute no
\* task; phase 3 is empty with impact 0.
C5_ScenarioA ==
    (Built /\ IsScenarioA) =>
        /\ weakest_pattern = "Golden Ratio"
        /\ strongest_pattern = "Triangle"
        /\ Ids(optimization_tasks) =
             << "CIRCLE_001", "GOLDEN_RATIO_001", "CIRCLE_002", "SPIRAL_001",
                "GOLDEN_RATIO_002" >>
        /\ Ids(Phase1.tasks) =
             << "CIRCLE_001", "GOLDEN_RATIO_001", "CIRCLE_002", "SPIRAL_001" >>
        /\ [ i \in 1..4 |-> Phase1.tasks[i].priority ] =
             << PHI_CUBED, PHI_CUBED, PHI_SQUARED, PHI_SQUARED >>
        /\ [ i \in 1..4 |-> Phase1.tasks[i].priority_name ] =
             << "phi^3 CRITICAL", "phi^3 CRITICAL", "phi^2 HIGH", "phi^2 HIGH" >>
        /\ Phase1.expected_impact = [ num |-> 325, den |-> 4 ]
        /\ Ids(Phase2.tasks) = << "GOLDEN_RATIO_002" >>
        /\ Phase2.tasks[1].priority = PHI
        /\ Phase2.tasks[1].priority_name = "phi^1 MEDIUM"
        /\ Phase2.expected_impact = [ num |-> 80, den |-> 1 ]
        /\ Phase3.tasks = << >> /\ Phase3.expected_impact.num = 0

\* The roadmap of scenario A has been built.
C5_Witness == Built /\ IsScenarioA /\ Len(Phase1.tasks) = 4

\* C6: the _prioritize_tasks step leaves optimization_tasks in non-increasing
\* order of priority, holding the same tasks, those of equal priority in the
\* order the generators appended them.
C6_StableSort ==
    [][ pc = "prioritize" =>
          /\ NonIncreasing(optimization_tasks')
          /\ KeepsEqualWeightOrder(optimization_tasks, optimization_tasks') ]_vars

\* The sort has moved GOLDEN_RATIO_001 in front of CIRCLE_002 and left
\* CIRCLE_002, TRIANGLE_001 and SPIRAL_001, all at PHI_SQUARED, in append order.
C6_Witness ==
    /\ pc = "roadmap"
    /\ \E i, j, k, l \in DOMAIN optimization_tasks :
         /\ i < j /\ j < k /\ k < l
         /\ optimization_tasks[i].id = "GOLDEN_RATIO_001"
         /\ optimization_tasks[j].id = "CIRCLE_002"
         /\ optimization_tasks[k].id = "TRIANGLE_001"
         /\ optimization_tasks[l].id = "SPIRAL_001"
         /\ optimization_tasks[j].priority = optimization_tasks[l].priority
         /\ optimization_tasks[k].priority = optimization_tasks[l].priority

\* C7: in a built roadmap, phase 1, phase 2 and phase 3 laid end to end are
\* the sorted optimization_tasks sequence, so every phase is in non-increasing
\* order of priority.
C7_ContiguousSlices ==
    Built =>
        /\ Phase1.tasks \o Phase2.tasks \o Phase3.tasks = TaskDicts(optimization_tasks)
        /\ NonIncreasing(optimization_tasks)
        /\ NonIncreasing(Phase1.tasks)
        /\ NonIncreasing(Phase2.tasks)
        /\ NonIncreasing(Phase3.tasks)

\* A built roadmap whose phase 1 mixes PHI_CUBED and PHI_SQUARED tasks and
\* whose phase 2 has two tasks.
C7_Witness ==
    /\ Built
    /\ Len(Phase1.tasks) >= 3
    /\ Phase1.tasks[1].priority # Phase1.tasks[Len(Phase1.tasks)].priority
    /\ Len(Phase2.tasks) = 2

\* C8 as claimed: for a report without overall_analysis.average_scores the
\* run aborts before a roadmap is built, and no plan file is written.
C8_AsClaimed ==
    LacksScoreMapping =>
        /\ ~Built
        /\ DOMAIN roadmap = {}
        /\ files_written = 0

\* C9 as claimed: for a report whose score mapping is empty the analyzer
\* fails: the run never gets past _analyze_current_state, no weakest pattern
\* is chosen and no task is generated.
C9_AsClaimed ==
    ZeroCategories =>
        /\ pc \in {"main", "analyze", "raised"}
        /\ weakest_pattern = "unset"
        /\ optimization_tasks = << >>

\* C10: _get_priority_name returns Critical from PHI_CUBED up, High from
\* PHI_SQUARED to below PHI_CUBED, Medium from PHI to below PHI_SQUARED and
\* Low below PHI, one tier for every weight, and the call changes nothing of
\* the optimizer, the roadmap or the files.
C10_ClassifierLadder ==
    /\ [](priority_name # "unset" =>
            /\ priority_name \in {"phi^3 CRITICAL", "phi^2 HIGH", "phi^1 MEDIUM", "phi^0 LOW"}
            /\ priority_name = "phi^3 CRITICAL" <=> priority_arg >= PHI_CUBED
            /\ priority_name = "phi^2 HIGH" <=>
                 (PHI_SQUARED <= priority_arg /\ priority_arg < PHI_CUBED)
            /\ priority_name = "phi^1 MEDIUM" <=>
                 (PHI <= priority_arg /\ priority_arg < PHI_SQUARED)
            /\ priority_name = "phi^0 LOW" <=> priority_arg < PHI)
    /\ [][ priority_name' # priority_name =>
             UNCHANGED << pc, optimizer, roadmap, files_written, disk_state,
                          disk_report, open_handles >> ]_vars

\* The classifier has been called with a weight just below PHI_SQUARED on an
\* optimizer that holds tasks.
C10_Witness ==
    /\ priority_name = "phi^1 MEDIUM"
    /\ priority_arg = PHI_SQUARED - 1
    /\ Len(optimization_tasks) > 0

\* ------------------------------------------------------------------------
\* Vocabulary of the later properties

\* The classifier ladder, as the specification states it.
TierOf(weight) ==
    CASE weight >= PHI_CUBED -> "phi^3 CRITICAL"
      [] PHI_SQUARED <= weight /\ weight < PHI_CUBED -> "phi^2 HIGH"
      [] PHI <= weight /\ weight < PHI_SQUARED -> "phi^1 MEDIUM"
      [] weight < PHI -> "phi^0 LOW"

Range(seq) == { seq[i] : i \in DOMAIN seq }

PhasesOf(r) ==
    << r.phases.phase_1_immediate, r.phases.phase_2_progressive,
       r.phases.phase_3_optimization >>

RECURSIVE SumOfImpacts(_)
SumOfImpacts(dicts) ==
    IF dicts = << >> THEN 0
    ELSE dicts[1].expected_impact + SumOfImpacts(Tail(dicts))

\* The position of a pattern in the declared order.
PatternIndex(p) == CHOOSE i \in DOMAIN Patterns : Patterns[i] = p

\* The order in which generate_optimization_plan's generator calls create
\* the tasks (lines 58-62, and the order of the appends in each generator).
CreationOrder ==
    << "CIRCLE_001", "CIRCLE_002", "TRIANGLE_001", "SPIRAL_001",
       "GOLDEN_RATIO_001", "GOLDEN_RATIO_002", "FRACTAL_001" >>

CreationRank(id) == CHOOSE i \in DOMAIN CreationOrder : CreationOrder[i] = id

\* ------------------------------------------------------------------------
\* C11: every task serialized in a phase of a built roadmap carries the tier
\* name the ladder gives its priority, and no task record stores a tier.
C11_TierConsistency ==
    Built =>
        /\ \A k \in 1..3 : \A d \in Range(PhasesOf(roadmap)[k].tasks) :
             d.priority_name = TierOf(d.priority)
        /\ \A t \in Range(optimization_tasks) :
             DOMAIN t = { "id", "title", "priority", "pattern", "system",
                          "estimated_effort", "expected_impact" }

\* A built roadmap that serializes a Critical, a High and a Medium task.
C11_Witness ==
    /\ Built
    /\ \E d \in Range(Phase1.tasks) : d.priority_name = "phi^3 CRITICAL"
    /\ \E d \in Range(Phase1.tasks) : d.priority_name = "phi^2 HIGH"
    /\ \E d \in Range(Phase2.tasks) : d.priority_name = "phi^1 MEDIUM"

\* C12: phase 1 holds exactly the tasks the ladder calls Critical or High,
\* phase 2 exactly the Medium ones and phase 3 exactly the Low ones.
C12_PhasesFollowTiers ==
    Built =>
        \A t \in Range(optimization_tasks) :
            LET d == _task_to_dict(t)
                tier == TierOf(t.priority)
            IN  /\ d \in Range(Phase1.tasks) <=> tier \in {"phi^3 CRITICAL", "phi^2 HIGH"}
                /\ d \in Range(Phase2.tasks) <=> tier = "phi^1 MEDIUM"
                /\ d \in Range(Phase3.tasks) <=> tier = "phi^0 LOW"
                /\ t.priority >= PHI_SQUARED <=> tier \in {"phi^3 CRITICAL", "phi^2 HIGH"}

\* A built roadmap with Critical and High tasks in phase 1 and a task in phase 2.
C12_Witness ==
    /\ Built
    /\ \E d \in Range(Phase1.tasks) : d.priority = PHI_CUBED
    /\ \E d \in Range(Phase1.tasks) : d.priority = PHI_SQUARED
    /\ Len(Phase2.tasks) = 1

\* C13: each phase's expected_impact is the mean of its tasks'
\* expected_impact (impact * count = sum), and is exactly 0 for an empty phase.
C13_AggregateImpact ==
    Built =>
        \A k \in 1..3 :
            LET ph == PhasesOf(roadmap)[k]
            IN  /\ ph.expected_impact.den > 0
                /\ ph.expected_impact.num * Len(ph.tasks) =
                     ph.expected_impact.den * SumOfImpacts(ph.tasks)
                /\ ph.tasks = << >> => ph.expected_impact.num = 0

\* A built roadmap with five tasks in phase 1, two in phase 2, none in phase 3.
C13_Witness ==
    /\ Built
    /\ Len(Phase1.tasks) = 5
    /\ Len(Phase2.tasks) = 2
    /\ Len(Phase3.tasks) = 0

\* C14: the weakest pattern has the minimum score and the strongest the
\* maximum, and each is the first pattern in declared order with that score.
C14_WeakestStrongest ==
    Analyzed =>
        /\ \A p \in PatternSet :
             /\ pattern_scores[weakest_pattern] <= pattern_scores[p]
             /\ pattern_scores[strongest_pattern] >= pattern_scores[p]
             /\ pattern_scores[p] = pattern_scores[weakest_pattern] =>
                  PatternIndex(weakest_pattern) <= PatternIndex(p)
             /\ pattern_scores[p] = pattern_scores[strongest_pattern] =>
                  PatternIndex(strongest_pattern) <= PatternIndex(p)

\* Triangle and Fractal tie for the minimum, Spiral and Golden Ratio for the
\* maximum.
C14_Witness ==
    /\ Analyzed
    /\ pattern_scores["Circle"] = 60
    /\ pattern_scores["Triangle"] = 40
    /\ pattern_scores["Spiral"] = 90
    /\ pattern_scores["Golden Ratio"] = 90
    /\ pattern_scores["Fractal"] = 40
    /\ weakest_pattern = "Triangle"
    /\ strongest_pattern = "Spiral"

C16_NextActionsHead ==
    (Built /\ optimization_tasks # << >>) =>
        \E t \in Range(optimization_tasks) :
            /\ roadmap.next_actions[1] = << "START", t.title >>
            /\ \A u \in Range(optimization_tasks) :
                 \/ u.priority < t.priority
                 \/ /\ u.priority = t.priority
                    /\ CreationRank(t.id) <= CreationRank(u.id)

\* TRIANGLE_001 and GOLDEN_RATIO_001 share the maximum priority and
\* TRIANGLE_001, created first, heads next_actions.
C16_Witness ==
    /\ Built
    /\ HasTaskAt("TRIANGLE_001", PHI_CUBED)
    /\ HasTaskAt("GOLDEN_RATIO_001", PHI_CUBED)
    /\ ~HasTask("CIRCLE_001")
    /\ roadmap.next_actions[1][2] = "Three-Point Architecture Stabilization"

\* C17: with no analysis file main() returns without constructing an
\* optimizer, building a roadmap or writing a file.
C17_NoInput ==
    disk_state = "none" =>
        /\ pc \in {"main", "returned"}
        /\ DOMAIN analysis_data = {}
        /\ DOMAIN pattern_scores = {}
        /\ optimization_tasks = << >>
        /\ DOMAIN roadmap = {}
        /\ files_written = 0
        /\ DOMAIN plan_files = {}

\* main() has returned for want of an analysis file.
C17_Witness == disk_state = "none" /\ pc = "returned"

\* C18: with an analysis file that does not parse, the constructor raises
\* to its caller: no task is generated, no roadmap is built and
\* save_optimization_plan is never called.
C18_ParseError ==
    disk_state = "invalid" =>
        /\ pc \in {"main", "raised"}
        /\ optimization_tasks = << >>
        /\ DOMAIN roadmap = {}
        /\ save_calls = 0
        /\ files_written = 0
        /\ DOMAIN plan_files = {}

\* The constructor has raised on an unparseable file.
C18_Witness == disk_state = "invalid" /\ pc = "raised"

\* C19 as claimed: a save under the default filename that opens its file
\* opens a path no earlier save has written.
C19_AsClaimed ==
    [][ (save_calls' = save_calls + 1 /\ storage # "open_fails") =>
          DefaultFilename(clock) \notin DOMAIN plan_files ]_vars

\* C20: a save that meets failing storage raises to its caller, and every
\* save, failing or not, leaves the roadmap and the optimizer's task list as
\* they were, so the roadmap can be saved again.
C20_ExportFrame ==
    [][ save_calls' = save_calls + 1 =>
          /\ storage # "ok" => pc' = "save_raised"
          /\ storage = "ok" => pc' = "done"
          /\ roadmap' = roadmap
          /\ optimization_tasks' = optimization_tasks
          /\ UNCHANGED optimizer ]_vars

\* After a failed save the same roadmap has been saved again, whole.
C20_Witness ==
    /\ pc = "done"
    /\ save_calls >= 2
    /\ files_written = 1
    /\ \E f \in DOMAIN plan_files :
         plan_files[f] = [ complete |-> TRUE, content |-> roadmap ]

\* ------------------------------------------------------------------------
\* Vocabulary of the run-wide properties

\* A generator is running or all have run and the list is not yet sorted.
Generating == pc \in {"circle", "triangle", "spiral", "golden_ratio", "fractal",
                      "prioritize"}

PairwiseDistinct(seq) ==
    \A i, j \in DOMAIN seq : i # j => seq[i] # seq[j]

IsPrefix(a, b) == Len(a) <= Len(b) /\ \A i \in DOMAIN a : b[i] = a[i]

\* The pattern a task id belongs to.
PatternOfId(id) ==
    CASE id \in {"CIRCLE_001", "CIRCLE_002"} -> "Circle"
      [] id = "TRIANGLE_001" -> "Triangle"
      [] id = "SPIRAL_001" -> "Spiral"
      [] id \in {"GOLDEN_RATIO_001", "GOLDEN_RATIO_002"} -> "Golden Ratio"
      [] id = "FRACTAL_001" -> "Fractal"

\* ------------------------------------------------------------------------
\* C21: at every point of a run on a fresh optimizer the ids of the tasks in
\* optimization_tasks are pairwise distinct.
C21_DistinctIds == PairwiseDistinct(Ids(optimization_tasks))

\* Every generator has appended all its tasks.
C21_Witness == Generated /\ Len(optimization_tasks) = 7

\* C22: until the sort runs, optimization_tasks is in creation order: the
\* patterns follow the declared order and a pattern's primary task precedes
\* its secondary or unconditional task; once sorted, tasks of equal priority
\* are still in that order.
C22_CreationOrder ==
    /\ Generating =>
         \A i, j \in DOMAIN optimization_tasks :
             i < j =>
                 /\ CreationRank(optimization_tasks[i].id) < CreationRank(optimization_tasks[j].id)
                 /\ PatternIndex(optimization_tasks[i].pattern)
                      <= PatternIndex(optimization_tasks[j].pattern)
                 /\ optimization_tasks[i].pattern = PatternOfId(optimization_tasks[i].id)
    /\ pc \in {"roadmap", "save", "done"} =>
         \A i, j \in DOMAIN optimization_tasks :
             (i < j /\ optimization_tasks[i].priority = optimization_tasks[j].priority) =>
                 CreationRank(optimization_tasks[i].id) < CreationRank(optimization_tasks[j].id)

\* All seven tasks stand unsorted, in creation order.
C22_Witness ==
    /\ pc = "prioritize"
    /\ Ids(optimization_tasks) = CreationOrder

\* C23: from the analysis to the returned roadmap no step changes
\* pattern_scores or the loaded report; a generator step keeps every task
\* already in the list as it is, the sort keeps the same task records (it
\* only reorders them) and the roadmap step leaves the list as it is.
C23_InputsNotMutated ==
    [][ (Generating \/ pc = "roadmap") =>
          /\ pattern_scores' = pattern_scores
          /\ analysis_data' = analysis_data
          /\ weakest_pattern' = weakest_pattern
          /\ pc # "prioritize" =>
               IsPrefix(optimization_tasks, optimization_tasks')
          /\ pc = "prioritize" =>
               /\ Len(optimization_tasks') = Len(optimization_tasks)
               /\ Range(optimization_tasks') = Range(optimization_tasks)
          /\ pc = "roadmap" => optimization_tasks' = optimization_tasks ]_vars

\* The roadmap is built from seven tasks that the sort has reordered.
C23_Witness ==
    /\ pc = "save"
    /\ Len(optimization_tasks) = 7
    /\ Ids(optimization_tasks) # CreationOrder
    /\ Len(Phase1.tasks) + Len(Phase2.tasks) = 7

\* C25: once the generators have run the task list is never empty: it holds
\* GOLDEN_RATIO_002 at weight PHI, exactly once; a built roadmap serializes
\* that task in phase 2 and in no other phase, and its next_actions is the
\* five-entry list, never the one-entry fallback.
C25_AlwaysOneTask ==
    /\ Generated =>
         /\ Len(optimization_tasks) >= 1
         /\ HasTaskAt("GOLDEN_RATIO_002", PHI)
         /\ Count("GOLDEN_RATIO_002", Ids(optimization_tasks)) = 1
    /\ Built =>
         /\ Count("GOLDEN_RATIO_002", Ids(Phase2.tasks)) = 1
         /\ Count("GOLDEN_RATIO_002", Ids(Phase1.tasks)) = 0
         /\ Count("GOLDEN_RATIO_002", Ids(Phase3.tasks)) = 0
         /\ Len(roadmap.next_actions) = 5
         /\ roadmap.next_actions[1][1] = "START"

\* A roadmap built from scores that trigger no threshold: the unconditional
\* task is its only task.
C25_Witness ==
    /\ Built
    /\ \A p \in PatternSet : pattern_scores[p] = 90
    /\ Len(optimization_tasks) = 1
    /\ Len(Phase2.tasks) = 1

\* C26: every task in optimization_tasks has one of the three weights PHI,
\* PHI_SQUARED, PHI_CUBED, so none is classified Low, and phase 3 of every
\* built roadmap has no task and expected_impact 0.
C26_NoLowTier ==
    /\ \A t \in Range(optimization_tasks) :
         /\ t.priority \in {PHI, PHI_SQUARED, PHI_CUBED}
         /\ _get_priority_name(t.priority) # "phi^0 LOW"
    /\ Built =>
         /\ Phase3.tasks = << >>
         /\ Phase3.expected_impact = [ num |-> 0, den |-> 1 ]
         /\ \A k \in 1..3 : \A d \in Range(PhasesOf(roadmap)[k].tasks) :
              d.priority_name # "phi^0 LOW"

\* A built roadmap whose tasks carry all three weights, FRACTAL_001 among them.
C26_Witness ==
    /\ Built
    /\ HasTaskAt("FRACTAL_001", PHI)
    /\ HasTaskAt("SPIRAL_001", PHI_SQUARED)
    /\ HasTaskAt("TRIANGLE_001", PHI_CUBED)

\* C24 as claimed: a second generate_optimization_plan call on the same
\* optimizer returns the phases the first call returned, and the ids in
\* optimization_tasks stay pairwise distinct.
C24_AsClaimed ==
    (runs > 1 /\ Built) =>
        /\ roadmap.phases = prior_roadmap.phases
        /\ PairwiseDistinct(Ids(optimization_tasks))

\* C27 as claimed: a save that raises leaves the plan files as they were
\* before the call: no file is created and no file's content changes.
C27_AsClaimed ==
    [][ (save_calls' = save_calls + 1 /\ pc' = "save_raised") =>
          plan_files' = plan_files ]_vars

\* C28: between the calls no file object opened by _load_analysis or by
\* save_optimization_plan is open: each is closed when its call has returned
\* and when it has raised (the parse failed, or the write failed).
C28_HandlesReleased == open_handles = 0

\* The load returned, a first save raised in json.dump and left a part of
\* the plan, and a second save returned.
C28_Witness ==
    /\ pc = "done"
    /\ save_calls = 2
    /\ files_written = 1
    /\ open_handles = 0
    /\ \E f \in DOMAIN plan_files : ~plan_files[f].complete

\* ------------------------------------------------------------------------
\* Vocabulary of the enhancer's properties

\* analyze_automation_performance has returned.
Probed == enh_pc \notin {"main", "validate", "analyze"}

\* The probe was caught failing before system_metrics was assigned.
ProbeFailedEmpty == Probed /\ DOMAIN performance_results["system_metrics"] = {}

\* C29: when analyze_automation_performance has returned with an empty
\* system_metrics, the run goes through the discovery to
\* generate_enhancement_recommendations and from there to main()'s except
\* branch: export_enhancement_report is never entered, no recommendation
\* list is returned, no report file is written, and main() returns 1.
C29_ProbeFailureAborts ==
    ProbeFailedEmpty =>
        /\ enh_pc \in {"discover", "recommend", "except", "exited"}
        /\ recommendations = << >>
        /\ report_files = 0
        /\ exit_status \in {-1, 1}
        /\ enh_pc = "exited" <=> exit_status = 1

\* main() has returned after a probe failure on a machine whose environment
\* and automations score high.
C29_Witness ==
    /\ ProbeFailedEmpty
    /\ enh_pc = "exited"
    /\ exit_status = 1
    /\ validation_results["compliance_score"] > 8000
    /\ discovery_results["sacred_geometry_score"] = 10000

\* ------------------------------------------------------------------------
\* C30: whatever the order in which the three workers start and end, once
\* the loop over the futures is over results has exactly the three
\* categories as keys; a category's entry reports success exactly when its
\* own run_test_category call returned its success entry, an entry that
\* names a category names its own, and overall_success is true exactly when
\* all three entries report success.
C30_ParallelResults ==
    /\ DOMAIN results \subseteq CategorySet
    /\ \A c \in DOMAIN results :
         /\ Succeeded(results[c]) <=> Succeeded(future_value[c])
         /\ "category" \in DOMAIN results[c] => results[c]["category"] = c
         /\ "success" \in DOMAIN results[c]
    /\ run_pc \in {"metrics", "done"} => DOMAIN results = CategorySet
    /\ run_pc = "done" =>
         /\ final_results.entries = Len(Categories)
         /\ final_results.overall_success <=>
              \A c \in CategorySet : Succeeded(results[c])

\* The run is over; phi_cubed's call let an exception out, phi_squared's
\* caught one and phi_first's succeeded.
C30_Witness ==
    /\ run_pc = "done"
    /\ DOMAIN future_value["phi_cubed"] = {}
    /\ ~Succeeded(results["phi_cubed"])
    /\ "error" \in DOMAIN results["phi_squared"]
    /\ "category" \in DOMAIN results["phi_squared"]
    /\ Succeeded(results["phi_first"])
    /\ ~final_results.overall_success

====
